---- MODULE Spec2Model ----
(***************************************************************************)
(* HTTPHeaderField::create and the RFC 7230 validators of                  *)
(* src/bun.js/bindings/webcore/HTTPHeaderField.cpp.                        *)
(*                                                                         *)
(* A string is a sequence of code units (naturals below 2^16).  The code   *)
(* indexes from 0; a sequence here is indexed from 1, so value[i] of the   *)
(* code is value[i + 1] here.  One call of create is a run of steps:       *)
(* trim, name check, one step per iteration of the value scan, the final   *)
(* switch, and the construction of the result.                             *)
(***************************************************************************)
EXTENDS Integers, Sequences, FiniteSets, TLC

\* ---------------------------------------------------------------- bounds
MaxNameLen == 3
MaxValueLen == 3
MaxNestLen == 5

\* size_t is unsigned: 0 - 1 wraps to its largest value, which stands here as
\* 2^31 - 1; no value of the model comes near it unless a decrement wraps.
SizeMax == 2147483647

\* ------------------------------------------------------------ code units
TAB == 9
SP == 32
DQUOTE == 34
LPAREN == 40
RPAREN == 41
BACKSLASH == 92

\* ----------------------------------------------------------- classifiers
isASCIIAlpha(c) == (c >= 65 /\ c <= 90) \/ (c >= 97 /\ c <= 122)

isASCIIDigit(c) == c >= 48 /\ c <= 57

isTokenCharacterLChar(c) ==
    \/ isASCIIAlpha(c) \/ isASCIIDigit(c)
    \/ c = 33 \/ c = 35 \/ c = 36
    \/ c = 37 \/ c = 38 \/ c = 39
    \/ c = 42 \/ c = 43 \/ c = 45
    \/ c = 46 \/ c = 94 \/ c = 95
    \/ c = 96 \/ c = 124 \/ c = 126

isDelimiterLChar(c) ==
    \/ c = 40 \/ c = 41 \/ c = 44
    \/ c = 47 \/ c = 58 \/ c = 59
    \/ c = 60 \/ c = 61 \/ c = 62
    \/ c = 63 \/ c = 64 \/ c = 91
    \/ c = 92 \/ c = 93 \/ c = 123
    \/ c = 125 \/ c = 34

\* the char16_t overload of a narrow classifier without its c < 0x80 guard:
\* static_cast<LChar> keeps the low byte only
isTokenCharacterUnguarded(c) == isTokenCharacterLChar(c % 256)

isTokenCharacter(c) == c < 128 /\ isTokenCharacterLChar(c % 256)

\* the char16_t overload of isDelimiter forwarding to the wrong narrow one
isDelimiterForwardsToToken(c) == c < 128 /\ isTokenCharacterLChar(c % 256)

isDelimiter(c) == c < 128 /\ isDelimiterLChar(c % 256)

\* isVisibleCharacter that forgets the delimiters
isVisibleCharacterTokenOnly(c) == isTokenCharacter(c)

isVisibleCharacter(c) == isTokenCharacter(c) \/ isDelimiter(c)

isWhitespace(c) == c = SP \/ c = TAB

isInRange(min, max, c) == c >= min /\ c <= max

isOBSText(c) == isInRange(128, 255, c)

isQuotedTextCharacter(c) ==
    \/ isWhitespace(c)
    \/ c = 33
    \/ isInRange(35, 91, c)
    \/ isInRange(93, 126, c)
    \/ isOBSText(c)

isQuotedPairSecondOctet(c) ==
    \/ isWhitespace(c)
    \/ isVisibleCharacter(c)
    \/ isOBSText(c)

isCommentText(c) ==
    \/ isWhitespace(c)
    \/ isInRange(33, 39, c)
    \/ isInRange(42, 91, c)
    \/ isInRange(93, 126, c)
    \/ isOBSText(c)

isTabOrSpace(c) == c = SP \/ c = TAB

\* ------------------------------------------------------------ code units
\* the largest char16_t
MaxCodeUnit == 65535

\* an LChar of an 8-bit string read as char16_t (char16_t c = value[i]):
\* zero-extended
Widen(c) == c

\* the code units a view yields for a string stored as 8-bit or as 16-bit
Units(s, is8Bit) == IF is8Bit THEN [k \in 1..Len(s) |-> Widen(s[k])] ELSE s

\* a string that fits the 8-bit storage
AllLatin1(s) == \A k \in 1..Len(s) : s[k] < 256

\* ------------------------------------------------------------- trimming
RECURSIVE TrimLeft(_)
TrimLeft(s) ==
    IF s # <<>> /\ isTabOrSpace(Head(s)) THEN TrimLeft(Tail(s)) ELSE s

RECURSIVE TrimRight(_)
TrimRight(s) ==
    IF s # <<>> /\ isTabOrSpace(s[Len(s)])
    THEN TrimRight(SubSeq(s, 1, Len(s) - 1))
    ELSE s

Trim(s) == TrimRight(TrimLeft(s))

\* ------------------------------------------------------------ isValidName
RECURSIVE NameLoop(_, _)
NameLoop(name, i) ==
    IF ~(i < Len(name)) THEN TRUE
    ELSE IF ~isTokenCharacter(name[i + 1]) THEN FALSE
    ELSE NameLoop(name, i + 1)

isValidName(name) ==
    IF Len(name) = 0 THEN FALSE ELSE NameLoop(name, 0)

\* ------------------------------------------------------------ isValidValue
OptionalWhitespace == "OptionalWhitespace"
Token == "Token"
QuotedString == "QuotedString"
Comment == "Comment"

\* final switch that forgets the hadNonWhitespace flag
FinalSwitchAlwaysTrue(st, had) == st \in {OptionalWhitespace, Token}

\* final switch that returns the flag in every state
FinalSwitchAnyState(st, had) == had

\* the switch after the loop
FinalSwitch(st, had) ==
    IF st \in {OptionalWhitespace, Token} THEN had ELSE FALSE

\* size_t arithmetic
SizeInc(n) == IF n = SizeMax THEN 0 ELSE n + 1

SizeDec(n) == IF n = 0 THEN SizeMax ELSE n - 1

\* the locals of isValidValue at the top of the loop (lines 127-129, 131);
\* readLog and commentStart only record what the scan did
StartLocals ==
    [state |-> OptionalWhitespace, commentDepth |-> 0,
     hadNonWhitespace |-> FALSE, i |-> 0,
     readLog |-> <<>>, commentStart |-> -1, rejected |-> FALSE]

\* locals that keep their values from one call to the next, as statics would
EnterLocalsStatic(L) == [L EXCEPT !.i = 0]

\* entering isValidValue: lines 127-129 and the i = 0 of line 131
EnterLocals(L) ==
    [StartLocals EXCEPT !.readLog = L.readLog, !.commentStart = L.commentStart]

\* a "continue" that skips the ++i of the for statement
ContinueInPlace(L) == L

\* "continue": the ++i of the for statement
Continue(L) == [L EXCEPT !.i = @ + 1]

\* "return false" inside the loop
Reject(L) == [L EXCEPT !.rejected = TRUE]

\* char16_t c = value[i]
ReadChar(L) == [L EXCEPT !.readLog = Append(@, L.i)]

\* lines 134-152
StepOptionalWhitespace(value, L0) ==
    LET L == ReadChar(L0)
        c == value[L.i + 1]
        H == [L EXCEPT !.hadNonWhitespace = TRUE]
    IN  IF isWhitespace(c) THEN Continue(L)
        ELSE IF isTokenCharacter(c) THEN Continue([H EXCEPT !.state = Token])
        ELSE IF c = DQUOTE THEN Continue([H EXCEPT !.state = QuotedString])
        ELSE IF c = LPAREN
             THEN Continue([H EXCEPT !.commentDepth = SizeInc(@),
                                     !.state = Comment,
                                     !.commentStart = L.i])
        ELSE Reject(H)

\* lines 154-158
StepToken(value, L0) ==
    LET L == ReadChar(L0)
        c == value[L.i + 1]
    IN  IF isTokenCharacter(c) THEN Continue(L)
        ELSE Continue([L EXCEPT !.state = OptionalWhitespace])

\* the escape without the test for the end of the value: value[i] is read
\* past the end, where the build finds some code unit that is no second octet
EscapePairNoEndTest(value, L) ==
    LET E == [L EXCEPT !.i = @ + 1, !.readLog = Append(@, L.i + 1)]
    IN  IF E.i >= Len(value) THEN Reject(E)
        ELSE IF ~isQuotedPairSecondOctet(value[E.i + 1]) THEN Reject(E)
        ELSE Continue(E)

\* the escape that checks the next character without consuming it
EscapePairNoSkip(value, L) ==
    LET E == [L EXCEPT !.i = @ + 1]
        R == [L EXCEPT !.readLog = Append(@, E.i)]
    IN  IF E.i = Len(value) THEN Reject(E)
        ELSE IF ~isQuotedPairSecondOctet(value[E.i + 1]) THEN Reject(R)
        ELSE Continue(R)

\* lines 165-170 and 187-192
EscapePair(value, L) ==
    LET E == [L EXCEPT !.i = @ + 1]
        R == [E EXCEPT !.readLog = Append(@, E.i)]
    IN  IF E.i = Len(value) THEN Reject(E)
        ELSE IF ~isQuotedPairSecondOctet(value[E.i + 1]) THEN Reject(R)
        ELSE Continue(R)

\* lines 159-174
StepQuotedString(value, L0) ==
    LET L == ReadChar(L0)
        c == value[L.i + 1]
    IN  IF c = DQUOTE THEN Continue([L EXCEPT !.state = OptionalWhitespace])
        ELSE IF c = BACKSLASH THEN EscapePair(value, L)
        ELSE IF ~isQuotedTextCharacter(c) THEN Reject(L)
        ELSE Continue(L)

\* a ')' that closes the comment whatever its depth
CloseParenFlat(L) ==
    [L EXCEPT !.commentDepth = 0, !.state = OptionalWhitespace]

\* a ')' that leaves Comment without the test of commentDepth
CloseParenNoTest(L) ==
    [L EXCEPT !.commentDepth = SizeDec(@), !.state = OptionalWhitespace]

\* lines 181-183
CloseParen(L) ==
    LET d == SizeDec(L.commentDepth)
    IN  [L EXCEPT !.commentDepth = d,
                  !.state = IF d = 0 THEN OptionalWhitespace ELSE @]

\* lines 175-196
StepComment(value, L0) ==
    LET L == ReadChar(L0)
        c == value[L.i + 1]
    IN  IF c = LPAREN THEN Continue([L EXCEPT !.commentDepth = SizeInc(@)])
        ELSE IF c = RPAREN THEN Continue(CloseParen(L))
        ELSE IF c = BACKSLASH THEN EscapePair(value, L)
        ELSE IF ~isCommentText(c) THEN Reject(L)
        ELSE Continue(L)

\* one iteration of the loop: the switch of line 133
ScanStep(value, L) ==
    CASE L.state = OptionalWhitespace -> StepOptionalWhitespace(value, L)
      [] L.state = Token -> StepToken(value, L)
      [] L.state = QuotedString -> StepQuotedString(value, L)
      [] L.state = Comment -> StepComment(value, L)

RECURSIVE ScanFrom(_, _)
ScanFrom(value, L) ==
    IF L.rejected THEN FALSE
    ELSE IF ~(L.i < Len(value)) THEN FinalSwitch(L.state, L.hadNonWhitespace)
    ELSE ScanFrom(value, ScanStep(value, L))

isValidValue(value) == ScanFrom(value, StartLocals)

\* --------------------------------------------------------------- create
None == [absent |-> TRUE]

\* line 218 with && in place of ||
CreateRejectsBoth(nOk, vOk) == ~nOk /\ ~vOk

CreateRejects(nOk, vOk) == ~nOk \/ ~vOk

\* line 218 validating the raw name instead of the trimmed view
ValidatedNameRaw(unparsed, trimmed) == unparsed

\* the argument of isValidName on line 218
ValidatedName(unparsed, trimmed) == trimmed

\* the ternary of lines 221-222 reusing the storage whenever it is not shorter
ReusesStorageAlways(unparsed, trimmed) == Len(trimmed) <= Len(unparsed)

ReusesStorage(unparsed, trimmed) == Len(trimmed) = Len(unparsed)

\* ------------------------------------------------------------- the inputs
\* tab, space, '-', ':', 'a', U+0161 (low byte 0x61 = 'a')
NameChars == {9, 32, 45, 58, 97, 353}

\* tab, CR, space, '"', '(', ')', '\', 'a', obs-text 0x80, U+0161
ValueChars == {9, 13, 32, 34, 40, 41, 92, 97, 128, 353}

\* '"', '(', ')', '\', 'a'
NestChars == {34, 40, 41, 92, 97}

SeqsUpTo(A, n) == UNION {[1..k -> A] : k \in 0..n}

FewNames == {<<97>>}

FewValues == {<<>>, <<32>>, <<9, 32>>, <<97>>, <<32, 97, 9>>}

Inputs ==
    (SeqsUpTo(NameChars, MaxNameLen) \X FewValues)
    \cup (FewNames \X SeqsUpTo(ValueChars, MaxValueLen))
    \cup (FewNames \X SeqsUpTo(NestChars, MaxNestLen))

\* --------------------------------------------------------------- state
VARIABLES
    argName, argValue,          \* what the caller passed to this call
    unparsedName, unparsedValue,\* the String&& parameters (empty once moved from)
    trimmedName, trimmedValue,  \* the trimmed views
    pc,                         \* position in create
    nameOk, valueOk,            \* what isValidName / isValidValue returned
    state, commentDepth, hadNonWhitespace, i,   \* locals of isValidValue
    readLog,                    \* indices of value read by the scan, in order
    commentStart,               \* index of the '(' that last opened a comment
    result,                     \* the optional<HTTPHeaderField> returned
    nameReused, valueReused,    \* which branch of lines 221-222 was taken
    call, first,                \* number of the call; inputs and result of the first call
    nameIs8Bit, valueIs8Bit,    \* whether the String passed is stored as 8-bit
    unit, classes               \* a code unit and what the classifiers say of it

vars == <<argName, argValue, unparsedName, unparsedValue, trimmedName,
          trimmedValue, pc, nameOk, valueOk, state, commentDepth,
          hadNonWhitespace, i, readLog, commentStart, result, nameReused,
          valueReused, call, first, nameIs8Bit, valueIs8Bit, unit, classes>>

argVars == <<argName, argValue, call, first, nameIs8Bit, valueIs8Bit,
            unit, classes>>
paramVars == <<unparsedName, unparsedValue>>
viewVars == <<trimmedName, trimmedValue>>
scanVars == <<state, commentDepth, hadNonWhitespace, i, readLog, commentStart>>
outVars == <<result, nameReused, valueReused>>

\* the state at entry of create(n, v)
Entry(n, v) ==
    /\ argName = n /\ argValue = v
    /\ unparsedName = n /\ unparsedValue = v
    /\ trimmedName = <<>> /\ trimmedValue = <<>>
    /\ pc = "create"
    /\ nameOk = FALSE /\ valueOk = FALSE
    /\ state = OptionalWhitespace /\ commentDepth = 0
    /\ hadNonWhitespace = FALSE /\ i = 0
    /\ readLog = <<>> /\ commentStart = -1
    /\ result = None /\ nameReused = FALSE /\ valueReused = FALSE

\* a String of Latin-1 characters is stored as 8-bit
Init ==
    /\ \E in \in Inputs : Entry(in[1], in[2])
    /\ call = 1
    /\ first = None
    /\ nameIs8Bit = AllLatin1(argName)
    /\ valueIs8Bit = AllLatin1(argValue)
    /\ unit = 0
    /\ classes = None

\* lines 216-217
CreateTrim ==
    /\ pc = "create"
    /\ trimmedName' = Trim(Units(unparsedName, nameIs8Bit))
    /\ trimmedValue' = Trim(Units(unparsedValue, valueIs8Bit))
    /\ pc' = "name"
    /\ UNCHANGED <<argVars, paramVars, nameOk, valueOk, scanVars, outVars>>

\* the locals of isValidValue as one record, and back
Locals ==
    [state |-> state, commentDepth |-> commentDepth,
     hadNonWhitespace |-> hadNonWhitespace, i |-> i,
     readLog |-> readLog, commentStart |-> commentStart, rejected |-> FALSE]

\* line 218, left operand: isValidName; the right operand is evaluated only
\* when the name is valid, with the locals of lines 127-129
CheckName ==
    /\ pc = "name"
    /\ nameOk' = isValidName(ValidatedName(unparsedName, trimmedName))
    /\ pc' = IF nameOk' THEN "scan" ELSE "return"
    /\ IF nameOk'
       THEN LET L == EnterLocals(Locals)
            IN  /\ state' = L.state
                /\ commentDepth' = L.commentDepth
                /\ hadNonWhitespace' = L.hadNonWhitespace
                /\ i' = L.i
                /\ UNCHANGED <<readLog, commentStart>>
       ELSE UNCHANGED scanVars
    /\ UNCHANGED <<argVars, paramVars, viewVars, valueOk, outVars>>

\* the effect of one loop iteration on the variables
Iterate(L) ==
    /\ state' = L.state
    /\ commentDepth' = L.commentDepth
    /\ hadNonWhitespace' = L.hadNonWhitespace
    /\ i' = L.i
    /\ readLog' = L.readLog
    /\ commentStart' = L.commentStart
    /\ IF L.rejected
       THEN valueOk' = FALSE /\ pc' = "return"
       ELSE UNCHANGED <<valueOk, pc>>
    /\ UNCHANGED <<argVars, paramVars, viewVars, nameOk, outVars>>

InLoop == pc = "scan" /\ i < Len(trimmedValue)

ScanOptionalWhitespace ==
    /\ InLoop /\ state = OptionalWhitespace
    /\ Iterate(StepOptionalWhitespace(trimmedValue, Locals))

ScanToken ==
    /\ InLoop /\ state = Token
    /\ Iterate(StepToken(trimmedValue, Locals))

ScanQuotedString ==
    /\ InLoop /\ state = QuotedString
    /\ Iterate(StepQuotedString(trimmedValue, Locals))

ScanComment ==
    /\ InLoop /\ state = Comment
    /\ Iterate(StepComment(trimmedValue, Locals))

\* lines 200-209: the loop is left with i >= length
ScanEnd ==
    /\ pc = "scan" /\ ~(i < Len(trimmedValue))
    /\ valueOk' = FinalSwitch(state, hadNonWhitespace)
    /\ pc' = "return"
    /\ UNCHANGED <<argVars, paramVars, viewVars, nameOk, scanVars, outVars>>

\* lines 218-223: nullopt, or the field; a reused String is moved from
CreateReturn ==
    /\ pc = "return"
    /\ pc' = "done"
    /\ IF CreateRejects(nameOk, valueOk)
       THEN /\ result' = None
            /\ UNCHANGED <<paramVars, nameReused, valueReused>>
       ELSE /\ nameReused' = ReusesStorage(unparsedName, trimmedName)
            /\ valueReused' = ReusesStorage(unparsedValue, trimmedValue)
            /\ result' = [name |-> IF nameReused' THEN unparsedName ELSE trimmedName,
                          value |-> IF valueReused' THEN unparsedValue ELSE trimmedValue]
            /\ unparsedName' = IF nameReused' THEN <<>> ELSE unparsedName
            /\ unparsedValue' = IF valueReused' THEN <<>> ELSE unparsedValue
    /\ UNCHANGED <<argVars, viewVars, nameOk, valueOk, scanVars>>

\* the caller calls create(n, v) once more; the locals of the call that
\* returned keep whatever they held until the next call sets them
CallAgain(n, v) ==
    /\ first' = [name |-> argName, value |-> argValue, result |-> result]
    /\ argName' = n /\ argValue' = v
    /\ unparsedName' = n /\ unparsedValue' = v
    /\ trimmedName' = <<>> /\ trimmedValue' = <<>>
    /\ pc' = "create"
    /\ nameOk' = FALSE /\ valueOk' = FALSE
    /\ readLog' = <<>> /\ commentStart' = -1
    /\ result' = None /\ nameReused' = FALSE /\ valueReused' = FALSE
    /\ UNCHANGED <<state, commentDepth, hadNonWhitespace, i, unit, classes>>

\* a second call of create, on the trimmed inputs of the first
CreateAgain ==
    /\ pc = "done" /\ call = 1
    /\ call' = 2
    /\ CallAgain(Trim(argName), Trim(argValue))
    /\ UNCHANGED <<nameIs8Bit, valueIs8Bit>>

\* a second call of create, on the very inputs of the first
CreateSame ==
    /\ pc = "done" /\ call = 1
    /\ call' = 3
    /\ CallAgain(argName, argValue)
    /\ UNCHANGED <<nameIs8Bit, valueIs8Bit>>

\* a second call of create, on the characters of the first stored as 16-bit
CreateWide ==
    /\ pc = "done" /\ call = 1
    /\ nameIs8Bit \/ valueIs8Bit
    /\ call' = 4
    /\ CallAgain(argName, argValue)
    /\ nameIs8Bit' = FALSE /\ valueIs8Bit' = FALSE

Next ==
    \/ CreateTrim
    \/ CheckName
    \/ ScanOptionalWhitespace
    \/ ScanToken
    \/ ScanQuotedString
    \/ ScanComment
    \/ ScanEnd
    \/ CreateReturn
    \/ CreateAgain
    \/ CreateSame
    \/ CreateWide

Spec == Init /\ [][Next]_vars

\* ------------------------------------------- the classifiers on their own
\* every classifier applied to one code unit
Classify ==
    /\ pc = "classify"
    /\ classes = None
    /\ classes' = [token |-> isTokenCharacter(unit),
                   delimiter |-> isDelimiter(unit),
                   visible |-> isVisibleCharacter(unit),
                   whitespace |-> isWhitespace(unit),
                   obsText |-> isOBSText(unit),
                   quotedText |-> isQuotedTextCharacter(unit),
                   secondOctet |-> isQuotedPairSecondOctet(unit),
                   commentText |-> isCommentText(unit)]
    /\ UNCHANGED <<argName, argValue, call, first, nameIs8Bit, valueIs8Bit,
                   unit, paramVars, viewVars, pc, nameOk, valueOk, scanVars,
                   outVars>>

InitClassify ==
    /\ unit \in 0..MaxCodeUnit
    /\ classes = None
    /\ pc = "classify"
    /\ argName = <<>> /\ argValue = <<>>
    /\ unparsedName = <<>> /\ unparsedValue = <<>>
    /\ trimmedName = <<>> /\ trimmedValue = <<>>
    /\ nameOk = FALSE /\ valueOk = FALSE
    /\ state = OptionalWhitespace /\ commentDepth = 0
    /\ hadNonWhitespace = FALSE /\ i = 0
    /\ readLog = <<>> /\ commentStart = -1
    /\ result = None /\ nameReused = FALSE /\ valueReused = FALSE
    /\ call = 1 /\ first = None
    /\ nameIs8Bit = TRUE /\ valueIs8Bit = TRUE

SpecClassify == InitClassify /\ [][Classify]_vars

TypeOK ==
    /\ pc \in {"create", "name", "scan", "return", "done", "classify"}
    /\ state \in {OptionalWhitespace, Token, QuotedString, Comment}
    /\ commentDepth \in 0..SizeMax
    /\ i \in Nat
    /\ pc = "scan" => i <= Len(trimmedValue)
    /\ call \in {1, 2, 3, 4}
    /\ nameIs8Bit => AllLatin1(argName)
    /\ valueIs8Bit => AllLatin1(argValue)

\* ======================================================================
\* The claims
\* ======================================================================
Returned == pc = "done"

IsField(r) == DOMAIN r = {"name", "value"}

Range(s) == {s[k] : k \in 1..Len(s)}

\* space and horizontal tab
HorizontalWhitespace == {32, 9}

\* t is raw with its leading and trailing spaces and tabs removed
IsTrimOf(t, raw) ==
    \E a \in 0..Len(raw) : \E b \in a..Len(raw) :
        /\ t = SubSeq(raw, a + 1, b)
        /\ \A k \in 1..a : raw[k] \in HorizontalWhitespace
        /\ \A k \in (b + 1)..Len(raw) : raw[k] \in HorizontalWhitespace
        /\ t # <<>> => t[1] \notin HorizontalWhitespace
        /\ t # <<>> => t[Len(t)] \notin HorizontalWhitespace

\* letters, digits and ! # $ % & ' * + - . ^ _ ` | ~
TcharSet ==
    (65..90) \cup (97..122) \cup (48..57)
    \cup {33, 35, 36, 37, 38, 39, 42, 43, 45, 46, 94, 95, 96, 124, 126}

\* C1: create returns a field exactly when the name validator accepts the
\* trimmed name and the value validator accepts the trimmed value; otherwise
\* it returns the absent result, and what it returns is never anything but
\* the absent result or a whole field.
C1_AllOrNothing ==
    Returned =>
        /\ result = None \/ IsField(result)
        /\ IsField(result) <=>
               (isValidName(Trim(argName)) /\ isValidValue(Trim(argValue)))
        /\ ~IsField(result) => result = None

C1_Witness ==
    /\ Returned /\ IsField(result)
    /\ Len(argName) > Len(result.name)
    /\ Len(argValue) > Len(result.value)

\* C2: when create succeeds the stored name is the raw name without its
\* leading and trailing spaces and tabs, and likewise the stored value,
\* whether the storage was reused or a trimmed copy was made.
C2_StoredIsTrimmed ==
    (Returned /\ IsField(result)) =>
        /\ IsTrimOf(result.name, argName)
        /\ IsTrimOf(result.value, argValue)
        /\ nameReused => result.name = argName
        /\ valueReused => result.value = argValue

C2_Witness ==
    /\ Returned /\ IsField(result)
    /\ nameReused /\ ~valueReused
    /\ Len(argValue) > Len(result.value)

\* C3: create on the trimmed inputs has the same outcome as create on the
\* raw inputs: both absent, or both the same field.
C3_TrimTransparent ==
    (Returned /\ call = 2) =>
        /\ IsTrimOf(argName, first.name)
        /\ IsTrimOf(argValue, first.value)
        /\ result = first.result

C3_Witness ==
    /\ Returned /\ call = 2 /\ IsField(result)
    /\ first.name # argName /\ first.value # argValue
    /\ result.name = argName /\ result.value = argValue

\* C4: the name of every field produced is non-empty and made of tchar
\* characters only; a raw name that is empty, trims to empty or holds a
\* character that is no tchar after trimming is rejected.
C4_NameIsToken ==
    Returned =>
        /\ IsField(result) =>
               /\ Len(result.name) > 0
               /\ Range(result.name) \subseteq TcharSet
        /\ \A t \in {SubSeq(argName, a, b) :
                       a \in 1..(Len(argName) + 1), b \in 0..Len(argName)} :
               (IsTrimOf(t, argName) /\ (t = <<>> \/ ~(Range(t) \subseteq TcharSet)))
                   => result = None

C4_Witness ==
    /\ Returned /\ result = None
    /\ Len(argName) = 3 /\ argName[3] \notin TcharSet \cup HorizontalWhitespace
    /\ argName[1] \in TcharSet
    /\ isValidValue(Trim(argValue))

\* C5: a name or value holding a code unit >= 0x100 is rejected; no field
\* stores such a code unit.
C5_WideRejected ==
    Returned =>
        /\ (\E c \in Range(argName) \cup Range(argValue) : c >= 256)
               => result = None
        /\ IsField(result) =>
               \A c \in Range(result.name) \cup Range(result.value) : c < 256

\* C6: every character of a value the value validator accepts is a space, a
\* tab, a visible ASCII character or obs-text.
C6_AcceptedValueLegal ==
    (pc \in {"return", "done"} /\ valueOk) =>
        Range(trimmedValue) \subseteq {32, 9} \cup (33..126) \cup (128..255)

\* C7: the value validator accepts only with the whole value scanned, the
\* state OptionalWhitespace or Token and hadNonWhitespace set; a scan that
\* stops in QuotedString or Comment is rejected.
C7_TerminationRule ==
    (pc \in {"return", "done"} /\ nameOk) =>
        /\ valueOk =>
               /\ i = Len(trimmedValue)
               /\ state \in {OptionalWhitespace, Token}
               /\ hadNonWhitespace
        /\ state \in {QuotedString, Comment} => ~valueOk

C7_Witness ==
    /\ pc = "return" /\ nameOk
    /\ state = QuotedString /\ hadNonWhitespace
    /\ i = Len(trimmedValue) /\ Len(readLog) = Len(trimmedValue)
    /\ ~valueOk

\* C8: a raw value that is empty or only spaces and tabs is rejected for
\* any name; its scan reads nothing and leaves hadNonWhitespace false.
C8_WhitespaceOnlyRejected ==
    (Range(argValue) \subseteq HorizontalWhitespace) =>
        /\ Returned => result = None
        /\ readLog = <<>> /\ ~hadNonWhitespace /\ state = OptionalWhitespace
        /\ pc \in {"return", "done"} => ~valueOk

C8_Witness ==
    /\ Returned /\ result = None
    /\ nameOk
    /\ Len(argValue) = 2 /\ Range(argValue) \subseteq HorizontalWhitespace

\* the number of unescaped ch in value[from .. to - 1], a backslash escaping
\* the code unit after it
RECURSIVE Unescaped(_, _, _, _)
Unescaped(value, from, to, ch) ==
    IF from >= to THEN 0
    ELSE IF value[from + 1] = BACKSLASH THEN Unescaped(value, from + 2, to, ch)
    ELSE (IF value[from + 1] = ch THEN 1 ELSE 0)
         + Unescaped(value, from + 1, to, ch)

Opened(to) == Unescaped(trimmedValue, commentStart, to, LPAREN)

Closed(to) == Unescaped(trimmedValue, commentStart, to, RPAREN)

\* C9: a backslash that is the last character of the value, read in
\* QuotedString or Comment, rejects the value, and every index the scan reads
\* the value at is below its length.
C9_EscapeAtEnd ==
    /\ [](\A k \in 1..Len(readLog) : readLog[k] < Len(trimmedValue))
    /\ [][(/\ InLoop
           /\ state \in {QuotedString, Comment}
           /\ i = Len(trimmedValue) - 1
           /\ trimmedValue[i + 1] = BACKSLASH)
          => (pc' = "return" /\ ~valueOk' /\ readLog' = Append(readLog, i))]_vars

C9_Witness ==
    /\ pc = "return" /\ nameOk /\ ~valueOk
    /\ state = Comment
    /\ Len(trimmedValue) >= 3
    /\ trimmedValue[Len(trimmedValue)] = BACKSLASH
    /\ trimmedValue[Len(trimmedValue) - 1] # BACKSLASH
    /\ i = Len(trimmedValue)
    /\ readLog[Len(readLog)] = Len(trimmedValue) - 1

\* C10: from the '(' that opens a comment in OptionalWhitespace the scanner
\* stays in Comment while the unescaped '(' outnumber the unescaped ')', goes
\* back to OptionalWhitespace at the ')' that balances them, and a value that
\* ends before they balance is rejected.
C10_CommentsBalance ==
    /\ []((pc = "scan" /\ state = Comment) =>
             /\ commentStart >= 0
             /\ trimmedValue[commentStart + 1] = LPAREN
             /\ Opened(i) > Closed(i))
    /\ [][(pc = "scan" /\ state = Comment /\ pc' = "scan") =>
             /\ state' \in {Comment, OptionalWhitespace}
             /\ commentStart' = commentStart
             /\ (state' = OptionalWhitespace) <=>
                    (/\ Opened(i') = Closed(i')
                     /\ trimmedValue[i'] = RPAREN
                     /\ i' = i + 1)]_vars
    /\ []((/\ pc \in {"return", "done"} /\ nameOk
           /\ commentStart >= 0
           /\ \A k \in (commentStart + 1)..Len(trimmedValue) :
                  Opened(k) > Closed(k))
          => ~valueOk)

C10_Witness ==
    /\ pc = "scan" /\ state = OptionalWhitespace
    /\ commentStart = 0
    /\ i = Len(trimmedValue)
    /\ Opened(i) = 2 /\ Closed(i) = 2
    /\ trimmedValue[i] = RPAREN

\* ---------------------------------------------- the field-value grammar
\* qdtext: space, tab, 0x21, 0x23-0x5B, 0x5D-0x7E, obs-text
QdTextSet == {32, 9, 33} \cup (35..91) \cup (93..126) \cup (128..255)

\* ctext: space, tab, 0x21-0x27, 0x2A-0x5B, 0x5D-0x7E, obs-text
CTextSet == {32, 9} \cup (33..39) \cup (42..91) \cup (93..126) \cup (128..255)

\* the second octet of a quoted-pair: space, tab, VCHAR, obs-text
PairOctetSet == {32, 9} \cup (33..126) \cup (128..255)

IsTokenSegment(s) == Len(s) > 0 /\ Range(s) \subseteq TcharSet

\* s[k .. last] is a run of qdtext and quoted-pairs
RECURSIVE QuotedBody(_, _, _)
QuotedBody(s, k, last) ==
    IF k > last THEN TRUE
    ELSE IF s[k] = 92
         THEN k + 1 <= last /\ s[k + 1] \in PairOctetSet
              /\ QuotedBody(s, k + 2, last)
    ELSE s[k] \in QdTextSet /\ QuotedBody(s, k + 1, last)

IsQuotedSegment(s) ==
    /\ Len(s) >= 2 /\ s[1] = 34 /\ s[Len(s)] = 34
    /\ QuotedBody(s, 2, Len(s) - 1)

\* s[k .. last] is a run of ctext, quoted-pairs and comments, read at
\* nesting depth d inside the outer comment
RECURSIVE CommentBody(_, _, _, _)
CommentBody(s, k, last, d) ==
    IF k > last THEN d = 0
    ELSE IF s[k] = 92
         THEN k + 1 <= last /\ s[k + 1] \in PairOctetSet
              /\ CommentBody(s, k + 2, last, d)
    ELSE IF s[k] = 40 THEN CommentBody(s, k + 1, last, d + 1)
    ELSE IF s[k] = 41 THEN d > 0 /\ CommentBody(s, k + 1, last, d - 1)
    ELSE s[k] \in CTextSet /\ CommentBody(s, k + 1, last, d)

IsCommentSegment(s) ==
    /\ Len(s) >= 2 /\ s[1] = 40 /\ s[Len(s)] = 41
    /\ CommentBody(s, 2, Len(s) - 1, 0)

IsSegment(s) == IsTokenSegment(s) \/ IsQuotedSegment(s) \/ IsCommentSegment(s)

IsWhitespaceRun(s) == Len(s) > 0 /\ Range(s) \subseteq HorizontalWhitespace

\* s from index k on is a sequence of segments and whitespace runs
RECURSIVE Segmented(_, _)
Segmented(s, k) ==
    IF k > Len(s) THEN TRUE
    ELSE \E e \in k..Len(s) :
             /\ IsSegment(SubSeq(s, k, e)) \/ IsWhitespaceRun(SubSeq(s, k, e))
             /\ Segmented(s, e + 1)

\* C11: a value made of valid token, quoted-string and comment segments
\* with optional, possibly empty, whitespace between them is accepted, in
\* whatever order the segments stand: swapping two adjacent segments keeps
\* the verdict.
C11_SegmentsInAnyOrder ==
    (pc \in {"return", "done"} /\ nameOk /\ Len(trimmedValue) > 0) =>
        /\ Segmented(trimmedValue, 1) => valueOk
        /\ \A k \in 1..(Len(trimmedValue) - 1) :
               LET A == SubSeq(trimmedValue, 1, k)
                   B == SubSeq(trimmedValue, k + 1, Len(trimmedValue))
               IN  (IsSegment(A) /\ IsSegment(B)) =>
                       (isValidValue(B \o A) <=> valueOk)

\* the code unit the loop iteration about to run reads as c
CurrentChar == trimmedValue[i + 1]

\* C13: in Token a character that is no tchar ends the token and gets the
\* OptionalWhitespace rule itself: whitespace is skipped, '"' opens a
\* quoted-string, '(' opens a comment at depth 1, anything else rejects.
C13_TokenEndIsChecked ==
    [][(InLoop /\ state = Token /\ CurrentChar \notin TcharSet) =>
          IF CurrentChar \in HorizontalWhitespace
          THEN pc' = "scan" /\ state' = OptionalWhitespace /\ i' = i + 1
          ELSE IF CurrentChar = 34
          THEN pc' = "scan" /\ state' = QuotedString /\ i' = i + 1
          ELSE IF CurrentChar = 40
          THEN /\ pc' = "scan" /\ state' = Comment /\ i' = i + 1
               /\ commentDepth' = 1
          ELSE pc' = "return" /\ ~valueOk']_vars

\* C14: in QuotedString or Comment a backslash takes the next character
\* with it: the value is rejected when there is none or it is no
\* quoted-pair second octet; otherwise state, commentDepth and
\* hadNonWhitespace stay as they are and the scan goes on after the pair.
C14_EscapeIsAUnit ==
    [][(InLoop /\ state \in {QuotedString, Comment} /\ CurrentChar = 92) =>
          IF i + 1 < Len(trimmedValue) /\ trimmedValue[i + 2] \in PairOctetSet
          THEN /\ pc' = "scan"
               /\ i' = i + 2
               /\ state' = state
               /\ commentDepth' = commentDepth
               /\ hadNonWhitespace' = hadNonWhitespace
               /\ readLog' = readLog \o <<i, i + 1>>
          ELSE pc' = "return" /\ ~valueOk' /\ state' = state]_vars

C14_Witness ==
    /\ pc = "scan" /\ state = Comment /\ commentDepth = 1
    /\ i = 3
    /\ trimmedValue[1] = 40 /\ trimmedValue[2] = 92 /\ trimmedValue[3] = 41
    /\ readLog = <<0, 1, 2>>

\* C15: all through the scan the state is Comment exactly when commentDepth
\* is at least 1, so commentDepth is 0 where '(' opens a comment and the
\* decrement never wraps; the depth never exceeds the number of '(' read.
C15_DepthMatchesState ==
    (pc \in {"scan", "return", "done"} /\ nameOk) =>
        /\ (state = Comment) <=> (commentDepth >= 1)
        /\ state \in {OptionalWhitespace, Token, QuotedString} => commentDepth = 0
        /\ commentDepth <= Len(readLog)
        /\ commentDepth # SizeMax

C15_Witness ==
    /\ pc = "scan" /\ state = Comment /\ commentDepth = 1
    /\ Opened(i) = 2 /\ Closed(i) = 1
    /\ trimmedValue[i] = 41

\* C16: the scan is one pass from left to right: every iteration moves the
\* index forward by 1, or by 2 for an escape pair, or returns; the indices
\* read strictly increase, so no character is read twice and there are at
\* most length(value) reads and iterations, the index never passes the
\* length, and what is left to scan shrinks until the final switch returns.
C16_SinglePass ==
    /\ [][InLoop =>
             \/ pc' = "scan" /\ i' \in {i + 1, i + 2} /\ i' <= Len(trimmedValue)
                /\ Len(readLog') = Len(readLog) + (i' - i)
             \/ pc' = "return"]_vars
    /\ []((pc \in {"scan", "return", "done"} /\ nameOk) =>
             /\ \A k \in 1..(Len(readLog) - 1) : readLog[k] < readLog[k + 1]
             /\ Len(readLog) <= Len(trimmedValue)
             /\ pc = "scan" => (Len(readLog) = i /\ i <= Len(trimmedValue))
             /\ pc \in {"return", "done"} => i <= Len(trimmedValue))

C16_Witness ==
    /\ pc = "return" /\ nameOk /\ valueOk
    /\ Len(trimmedValue) = 5
    /\ readLog = <<0, 1, 2, 3, 4>>
    /\ trimmedValue[2] = 92 /\ trimmedValue[4] = 40

\* C12: a second call of create with the same raw name and raw value returns
\* the same result as the first, and isValidValue starts every call from
\* OptionalWhitespace, commentDepth 0, hadNonWhitespace false and index 0,
\* whatever the call before left behind.
C12_Deterministic ==
    /\ (call = 3 /\ Returned) =>
           /\ argName = first.name /\ argValue = first.value
           /\ result = first.result
    /\ (pc = "scan" /\ readLog = <<>>) =>
           /\ state = OptionalWhitespace
           /\ commentDepth = 0
           /\ ~hadNonWhitespace
           /\ i = 0

C12_Witness ==
    /\ call = 3 /\ pc = "scan" /\ readLog = <<>>
    /\ first.result = None
    /\ first.value = <<34, 97>>
    /\ argValue = first.value

\* C17: a name and value of code units below 0x100 get the same result
\* stored as 8-bit and stored as 16-bit, and on every code unit 0x00-0xFF
\* the char16_t overloads of isTokenCharacter and isDelimiter agree with the
\* LChar overloads.
C17_NarrowWideAgree ==
    (call = 4 /\ Returned) =>
        /\ argName = first.name /\ argValue = first.value
        /\ ~nameIs8Bit /\ ~valueIs8Bit
        /\ (AllLatin1(argName) /\ AllLatin1(argValue)) => result = first.result
        /\ \A c \in 0..255 :
               /\ isTokenCharacter(c) <=> isTokenCharacterLChar(c)
               /\ isDelimiter(c) <=> isDelimiterLChar(c)

C17_Witness ==
    /\ call = 4 /\ Returned /\ IsField(result)
    /\ result = first.result
    /\ argValue = <<34, 128, 34>>
    /\ ~valueIs8Bit

\* C18: no code unit is both tchar and delimiter, the two classes together
\* are exactly 0x21-0x7E, and isQuotedPairSecondOctet accepts exactly space,
\* tab, 0x21-0x7E and 0x80-0xFF.
C18_VisibleAndSecondOctet ==
    (pc = "classify" /\ classes # None) =>
        /\ ~(classes.token /\ classes.delimiter)
        /\ (classes.token \/ classes.delimiter) <=> unit \in 33..126
        /\ classes.visible <=> unit \in 33..126
        /\ classes.secondOctet <=> unit \in {32, 9} \cup (33..126) \cup (128..255)
        /\ classes.token <=> unit \in TcharSet

C18_Witness ==
    /\ pc = "classify" /\ classes # None
    /\ unit = 92
    /\ classes.delimiter /\ ~classes.token /\ classes.secondOctet

====
